---- MODULE Spec2Model ----
(***************************************************************************)
(* A model of the font download-and-patch scripts: src/lib.py (the         *)
(* library functions), src/main.py (the one-file script that runs the      *)
(* whole pipeline) and src/clone_nerd_fonts_repo.py (the stand-alone       *)
(* repository preparer).  The variable variant says which file's code is   *)
(* running.  One action models one external interaction of the code: an    *)
(* HTTP request, the start of a child process, the wait for its exit, a    *)
(* filesystem call.                                                        *)
(*                                                                         *)
(* Strings the code searches in (file names, selectors) are sequences of   *)
(* one-character strings, so that str.find is computed, not assumed.       *)
(***************************************************************************)
EXTENDS Integers, Sequences, FiniteSets, TLC

VARIABLES
    variant,     \* "clone" | "lib" | "main": which source file runs
    pc,          \* position in the code
    outcome,     \* "none" | "running" | "returned" | "exit0" | "exit1" | "crash"
    run,         \* number of the current run (process or library call)
    fn,          \* the function the current run entered ("script" for a script)
    guard,       \* what the destination check of this run did: "none" | "refused" | "passed"
    history,     \* the runs that have ended: [fn, guard, outcome]
    tools,       \* what is known of each external program: "unknown" | "present" | "absent"
    child,       \* the child process that is running, NoChild when there is none
    returncode,  \* exit status of the last child process that exited ("none" before any)
    dest,        \* the destination directory: [exists, entries]
    scratch,     \* the temporary fonts directory: [exists, files]
    unpatched,   \* files in <dest>/src/unpatched-fonts
    patched,     \* files in <dest>/patched-fonts
    fonts,       \* the list of font sources being fetched
    ttf_files,   \* the list of staged font files
    i,           \* index of the loop in progress
    font,        \* the Font object of the current iteration
    assets,      \* data["assets"] inside get_filename
    todo,        \* path_fonts: the listed files not yet patched
    nf_tag,      \* the nerd-fonts release tag handed to git checkout
    log          \* the external interactions so far, in order

ctl == <<variant, pc, outcome, run, fn, guard, history>>
env == <<tools, child, returncode>>
fs == <<dest, scratch, unpatched, patched>>
cfg == <<fonts, ttf_files>>
loc == <<i, font, assets, todo, nf_tag>>
vars == <<variant, pc, outcome, run, fn, guard, history, tools, child, returncode,
          dest, scratch, unpatched, patched, fonts, ttf_files, i, font, assets,
          todo, nf_tag, log>>

----------------------------------------------------------------------------
(* Bounds *)

MaxRuns == 2      \* runs (script invocations or library calls) on one filesystem
MaxFonts == 2     \* font sources in one list
MaxStaged == 2    \* staged font files in one list
MaxAssets == 2    \* assets of one release

----------------------------------------------------------------------------
(* Strings *)

None == "None"                          \* Python's None, where a tag is expected
NoneStr == <<"n", "o", "n", "e">>       \* the sentinel "none" as a file name
Empty == <<>>

\* sub occurs in s at 1-based position p
OccursAt(s, sub, p) ==
    /\ p + Len(sub) - 1 <= Len(s)
    /\ \A k \in 1..Len(sub) : s[p + k - 1] = sub[k]

\* str.find: the lowest 0-based index of sub in s, or -1
Find(s, sub) ==
    LET hits == {p \in 1..(Len(s) + 1) : OccursAt(s, sub, p)}
    IN  IF hits = {} THEN -1
        ELSE (CHOOSE p \in hits : \A q \in hits : p <= q) - 1

\* Python truthiness of a str: the operand of `x or y`
Truthy(s) == s # Empty

----------------------------------------------------------------------------
(* Paths, files, events *)

\* a path or a URL: its directory part (a sequence of segments) and its last segment
Path(dir, name) == [dir |-> dir, name |-> name]
NoPath == Path(<<>>, <<>>)

TmpDir == <<"tmp", "fonts">>                       \* TEMP_DIR_FONTS, TEMP_DIR
UnpatchedDir == <<"dest", "src", "unpatched-fonts">>
PatchedDir == <<"dest", "patched-fonts">>

\* a file: where it is, where its bytes came from, the feature strings frozen into it
File(dir, name, origin, feat) == [dir |-> dir, name |-> name, origin |-> origin, feat |-> feat]
PathOf(f) == Path(f.dir, f.name)

\* writing a file replaces the file at the same path
WriteFile(files, f) == {g \in files : PathOf(g) # PathOf(f)} \cup {f}

\* no Font object
NoFont == [repo |-> "", tag |-> "", filename |-> Empty, download_url |-> NoPath]

\* an event: its kind, what it is about, the list index it belongs to (0: none),
\* the command line of a child process, and the paths it reads and writes
Ev(k, what, n, arg, src, dst) ==
    [k |-> k, what |-> what, n |-> n, arg |-> arg, src |-> src, dst |-> dst]

Report(what) == Ev("report", what, 0, <<>>, NoPath, NoPath)
Api(who, idx) == Ev("api", who, idx, <<>>, NoPath, NoPath)
Mkdir(path) == Ev("mkdir", path, 0, <<>>, NoPath, NoPath)
Rmtree(path) == Ev("rmtree", path, 0, <<>>, NoPath, NoPath)
Spawn(cmd, n, src, dst) == Ev("spawn", cmd[1], n, cmd, src, dst)
Warn(what, n) == Ev("warn", what, n, <<>>, NoPath, NoPath)

ToolNames == {"git", "fontforge", "unzip", "pyftfeatfreeze"}

\* the filesystem's answer on a program is fixed, and learnt when first asked
Knows(t, present) == tools[t] \in {"unknown", IF present THEN "present" ELSE "absent"}
Learn(t, present) == [tools EXCEPT ![t] = IF present THEN "present" ELSE "absent"]

NoChild == [tool |-> "none", n |-> 0]

----------------------------------------------------------------------------
(* Control *)

\* sys.exit(code) / an uncaught exception / the end of the script or function
Stop(how) ==
    /\ outcome' = how
    /\ pc' = "stopped"

Goto(next) ==
    /\ pc' = next
    /\ outcome' = outcome

Running == outcome = "running"

\* the script order: what runs after fnname has returned
\* src/clone_nerd_fonts_repo.py main(): urlopen, check_requirements, clone_nerd_fonts_repo
CloneScript(fnname) ==
    CASE fnname = "urlopen" -> "check_requirements"
      [] fnname = "check_requirements" -> "clone_guard"
      [] OTHER -> "end"

\* main.py's order with the copy left out
MainScriptSkipsCopy(fnname) ==
    CASE fnname = "clone_nerd_fonts_repo" -> "fonts_assign"
      [] fnname = "download_and_extract_fonts" -> "ttf_files_assign"
      [] fnname = "apply_stylistic_sets" -> "rmtree_scratch"
      [] fnname = "rmtree" -> "path_start"
      [] OTHER -> "end"

\* src/main.py, the module-level statements in file order
MainScript(fnname) ==
    CASE fnname = "clone_nerd_fonts_repo" -> "fonts_assign"
      [] fnname = "download_and_extract_fonts" -> "ttf_files_assign"
      [] fnname = "apply_stylistic_sets" -> "copy_start"
      [] fnname = "copy_and_paste_fonts" -> "rmtree_scratch"
      [] fnname = "rmtree" -> "path_start"
      [] OTHER -> "end"

\* a function returns: a library function to its caller, a script's to the next statement
Return(fnname) ==
    LET next == IF variant = "clone" THEN CloneScript(fnname)
                ELSE IF variant = "main" THEN MainScript(fnname)
                ELSE "end"
    IN  IF next = "end" THEN Stop("returned") ELSE Goto(next)

\* subprocess.Popen raises FileNotFoundError when the program is not installed
\* or the cwd does not exist, TypeError when an argument is not a str
CanSpawn(present, cwdExists, cmd) ==
    present /\ cwdExists /\ \A k \in 1..Len(cmd) : cmd[k] # None

\* with subprocess.Popen(cmd, cwd=...) as process: the child starts, or Popen raises;
\* process is bound anew, the exit status of the child before it is gone
Popen(tool, present, cwdExists, cmd, n, src, dst, wait) ==
    /\ child = NoChild
    /\ returncode' = "none"
    /\ Knows(tool, present)
    /\ tools' = Learn(tool, present)
    /\ IF CanSpawn(present, cwdExists, cmd)
       THEN /\ child' = [tool |-> tool, n |-> n]
            /\ log' = Append(log, Spawn(cmd, n, src, dst))
            /\ Goto(wait)
       ELSE /\ UNCHANGED <<child, log>>
            /\ Stop("crash")

\* a wait that reports the child's failure
CommunicateReports(tool, ok) ==
    /\ child.tool = tool
    /\ child' = NoChild
    /\ returncode' = IF ok THEN 0 ELSE 1
    /\ log' = IF ok THEN log ELSE Append(log, Report(tool))

\* process.communicate(): the caller waits until the child has exited; the exit
\* status is left in process.returncode, which no caller reads
Communicate(tool, ok) ==
    /\ child.tool = tool
    /\ child' = NoChild
    /\ returncode' = IF ok THEN 0 ELSE 1
    /\ log' = log

----------------------------------------------------------------------------
(* The repository preparer *)

URL_NF_REPO == "https://github.com/ryanoasis/nerd-fonts.git"
DEST == "dest"
TagNF == "v3"       \* a release tag of the nerd-fonts repository

GitCloneCmd == <<"git", "clone", "--filter=blob:none", "--sparse", URL_NF_REPO, DEST>>
GitSparseCmd == <<"git", "sparse-checkout", "add", "bin", "css", "src/glyphs", "src/svgs">>
GitCheckoutCmd(tag) == <<"git", "checkout", tag>>

\* sys.exit(0) and sys.exit() in clone_nerd_fonts_repo.py, sys.exit(1) in lib.py
ErrorExit == IF variant = "clone" THEN "exit0" ELSE "exit1"

\* clone_nerd_fonts_repo.py main(): the GET of the latest release, before anything else
MainUrlopen ==
    /\ Running /\ variant = "clone" /\ pc = "main_urlopen"
    /\ \E resp \in {"tag", "empty", "error"} :
         IF resp = "tag"
         THEN /\ nf_tag' = TagNF
              /\ log' = Append(log, Api("latest", 0))
              /\ Return("urlopen")
         ELSE /\ nf_tag' = ""
              /\ log' = log \o <<Api("latest", 0),
                                 Report(IF resp = "error" THEN "Error" ELSE "no latest tag")>>
              /\ Stop("exit0")
    /\ UNCHANGED <<variant, run, fn, guard, history, env, fs, cfg, i, font, assets, todo>>

\* the order in which check_requirements asks shutil.which
CheckOrder ==
    IF variant = "clone" THEN <<"git">>
    ELSE <<"git", "fontforge", "unzip", "pyftfeatfreeze">>

\* check_requirements: the first program shutil.which does not find ends the run
CheckRequirements ==
    /\ Running /\ pc = "check_requirements"
    /\ \E miss \in 0..Len(CheckOrder) :
         LET asked == IF miss = 0 THEN Len(CheckOrder) ELSE miss
             found(k) == k # miss
         IN  /\ \A k \in 1..asked : Knows(CheckOrder[k], found(k))
             /\ tools' = [t \in ToolNames |->
                            IF \E k \in 1..asked : CheckOrder[k] = t
                            THEN (IF miss # 0 /\ CheckOrder[miss] = t THEN "absent" ELSE "present")
                            ELSE tools[t]]
             /\ IF miss = 0
                THEN /\ log' = log
                     /\ Return("check_requirements")
                ELSE /\ log' = Append(log, Report(CheckOrder[miss]))
                     /\ Stop(ErrorExit)
    /\ UNCHANGED <<variant, run, fn, guard, history, child, returncode, fs, cfg, loc>>

\* lib.py get_latest_version_nf: the tag, None after an HTTP error other than 401
GetLatestVersionNf ==
    /\ Running /\ variant = "lib" /\ pc = "get_latest_version_nf"
    /\ \E resp \in {"tag", "http401", "httpOther", "exception"} :
         /\ log' = log \o <<Api("latest", 0)>>
                       \o (IF resp = "http401" THEN <<Report("token")>>
                           ELSE IF resp = "exception" THEN <<Report("latest")>> ELSE <<>>)
         /\ nf_tag' = IF resp = "tag" THEN TagNF
                      ELSE IF resp = "httpOther" THEN None ELSE nf_tag
         /\ IF resp \in {"http401", "exception"} THEN Stop("exit1")
            ELSE Return("get_latest_version_nf")
    /\ UNCHANGED <<variant, run, fn, guard, history, env, fs, cfg, i, font, assets, todo>>

\* main.py clone_nerd_fonts_repo, lines 91-95: make ~/Programs, delete the destination
MainPrepare ==
    /\ Running /\ variant = "main" /\ pc = "main_prepare"
    /\ \E programs \in BOOLEAN :
         /\ dest.exists => programs
         /\ log' = log \o (IF programs THEN <<>> ELSE <<Mkdir("Programs")>>)
                       \o (IF dest.exists THEN <<Rmtree(DEST)>> ELSE <<>>)
    /\ dest' = [exists |-> FALSE, entries |-> {}]
    /\ unpatched' = {}
    /\ patched' = {}
    /\ guard' = "passed"
    /\ Goto("git_clone")
    /\ UNCHANGED <<variant, run, fn, history, env, scratch, cfg, loc>>

\* the same check with sys.exit left out: the error is reported and the clone goes on
CloneGuardNoExit ==
    /\ Running /\ variant \in {"lib", "clone"} /\ pc = "clone_guard"
    /\ log' = IF dest.exists /\ dest.entries # {}
              THEN Append(log, Report("destination")) ELSE log
    /\ guard' = "passed"
    /\ Goto("git_clone")
    /\ UNCHANGED <<variant, run, fn, history, env, fs, cfg, loc>>

\* lib.py, clone_nerd_fonts_repo.py: refuse a destination that exists and is not empty
CloneGuard ==
    /\ Running /\ variant \in {"lib", "clone"} /\ pc = "clone_guard"
    /\ IF dest.exists /\ dest.entries # {}
       THEN /\ log' = Append(log, Report("destination"))
            /\ guard' = "refused"
            /\ Stop(ErrorExit)
       ELSE /\ log' = log
            /\ guard' = "passed"
            /\ Goto("git_clone")
    /\ UNCHANGED <<variant, run, fn, history, env, fs, cfg, loc>>

\* git clone --filter=blob:none --sparse URL dest
GitClone ==
    /\ Running /\ pc = "git_clone"
    /\ \E present \in BOOLEAN :
         Popen("git", present, TRUE, GitCloneCmd, 0, NoPath, NoPath, "git_clone_wait")
    /\ UNCHANGED <<variant, run, fn, guard, history, fs, cfg, loc>>

\* a clone that succeeds leaves the repository in the destination; one that fails
\* removes what it created
GitCloneWait ==
    /\ Running /\ pc = "git_clone_wait"
    /\ \E ok \in BOOLEAN :
         /\ Communicate("git", ok)
         /\ dest' = IF ok THEN [exists |-> TRUE, entries |-> {"repo"}] ELSE dest
    /\ Goto("git_sparse")
    /\ UNCHANGED <<variant, run, fn, guard, history, tools, scratch, unpatched, patched,
                   cfg, loc>>

\* git sparse-checkout add bin css src/glyphs src/svgs, with cwd=dest_dir
GitSparse ==
    /\ Running /\ pc = "git_sparse"
    /\ Popen("git", TRUE, dest.exists, GitSparseCmd, 0, NoPath, NoPath, "git_sparse_wait")
    /\ UNCHANGED <<variant, run, fn, guard, history, fs, cfg, loc>>

\* git succeeds only inside a repository
GitSparseWait ==
    /\ Running /\ pc = "git_sparse_wait"
    /\ \E ok \in BOOLEAN :
         /\ ok => "repo" \in dest.entries
         /\ Communicate("git", ok)
    /\ Goto(IF variant = "main" THEN "mk_patched" ELSE "git_checkout")
    /\ UNCHANGED <<variant, run, fn, guard, history, tools, fs, cfg, loc>>

\* git checkout <tag>, with cwd=dest_dir (lib.py, clone_nerd_fonts_repo.py)
GitCheckout ==
    /\ Running /\ pc = "git_checkout"
    /\ Popen("git", TRUE, dest.exists, GitCheckoutCmd(nf_tag), 0, NoPath, NoPath,
             "git_checkout_wait")
    /\ UNCHANGED <<variant, run, fn, guard, history, fs, cfg, loc>>

GitCheckoutWait ==
    /\ Running /\ pc = "git_checkout_wait"
    /\ \E ok \in BOOLEAN :
         /\ ok => "repo" \in dest.entries
         /\ Communicate("git", ok)
    /\ Goto("mk_patched")
    /\ UNCHANGED <<variant, run, fn, guard, history, tools, fs, cfg, loc>>

\* os.makedirs(path): FileExistsError when the directory is there already
Makedirs(entry, next) ==
    IF entry \in dest.entries
    THEN /\ UNCHANGED <<log, dest>>
         /\ Stop("crash")
    ELSE /\ log' = Append(log, Mkdir(entry))
         /\ dest' = [exists |-> TRUE, entries |-> dest.entries \cup {entry}]
         /\ next

MkPatched ==
    /\ Running /\ pc = "mk_patched"
    /\ Makedirs("patched-fonts", Goto("mk_unpatched"))
    /\ UNCHANGED <<variant, run, fn, guard, history, env, scratch, unpatched, patched,
                   cfg, loc>>

MkUnpatched ==
    /\ Running /\ pc = "mk_unpatched"
    /\ Makedirs("unpatched-fonts", Return("clone_nerd_fonts_repo"))
    /\ UNCHANGED <<variant, run, fn, guard, history, env, scratch, unpatched, patched,
                   cfg, loc>>

----------------------------------------------------------------------------
(* The release resolver and the font fetcher *)

TagFont == "v1"            \* the tag of a font repository's latest release
NoneTag == "none"          \* what get_tag returns when the request failed

DotTtf == <<".", "t", "t", "f">>
DotOtf == <<".", "o", "t", "f">>
DotZip == <<".", "z", "i", "p">>

\* lib.py is_ttf_or_otf
is_ttf_or_otf(filename) == Find(filename, DotTtf) # -1 \/ Find(filename, DotOtf) # -1

\* main.py is_ttf
is_ttf(filename) == Find(filename, DotTtf) # -1

\* the test that download_and_extract_fonts branches on
IsFontFile(filename) ==
    IF variant = "main" THEN is_ttf(filename) ELSE is_ttf_or_otf(filename)

\* get_filename's loop over data["assets"], from position k on
RECURSIVE FirstMatch(_, _, _)
FirstMatch(list, start_with, k) ==
    IF k > Len(list) THEN NoneStr
    ELSE IF Find(list[k], start_with) # -1 THEN list[k]
    ELSE FirstMatch(list, start_with, k + 1)

\* the scan with the one-asset shortcut left out
ScanAssetsNoShortcut(list, start_with) == FirstMatch(list, start_with, 1)

\* get_filename on a successful response
ScanAssets(list, start_with) ==
    IF Len(list) = 1 THEN list[1] ELSE FirstMatch(list, start_with, 1)

\* the release-download URL that Font.__init__ builds
ReleaseUrl(repo, tag, filename) ==
    Path(<<"github.com", repo, "releases", "download", tag>>, filename)

\* Font.__init__: metadata.download_url or the release-download URL
DownloadUrl(metadata, tag, filename) ==
    IF metadata.download_url # NoPath THEN metadata.download_url
    ELSE ReleaseUrl(metadata.repo, tag, filename)

\* sys.exit() in main.py, sys.exit(1) in lib.py, after "Invalid token"
TokenExit == IF variant = "main" THEN "exit0" ELSE "exit1"

\* download_and_extract_fonts: delete and recreate the temporary directory
DownloadStart ==
    /\ Running /\ pc = "download_start"
    /\ log' = log \o (IF scratch.exists THEN <<Rmtree("tmp/fonts")>> ELSE <<>>)
                  \o <<Mkdir("tmp/fonts")>>
    /\ scratch' = [exists |-> TRUE, files |-> {}]
    /\ i' = 1
    /\ IF fonts = <<>> THEN Return("download_and_extract_fonts") ELSE Goto("font_tag")
    /\ UNCHANGED <<variant, run, fn, guard, history, env, dest, unpatched, patched, cfg,
                   font, assets, todo, nf_tag>>

\* Font.__init__: self.tag = metadata.tag or self.get_tag()
FontTag ==
    /\ Running /\ pc = "font_tag"
    /\ LET metadata == fonts[i]
           made(tag) == [repo |-> metadata.repo, tag |-> tag, filename |-> Empty,
                         download_url |-> NoPath]
       IN  IF metadata.tag # ""
           THEN /\ font' = made(metadata.tag)
                /\ log' = log
                /\ Goto("font_filename")
           ELSE \E resp \in {"tag", "http401", "httpOther", "urlError"} :
                  /\ log' = log \o <<Api("get_tag", i)>>
                                \o (IF resp = "http401" THEN <<Report("token")>> ELSE <<>>)
                  /\ font' = made(IF resp = "tag" THEN TagFont
                                  ELSE IF resp = "httpOther" THEN NoneTag ELSE "")
                  /\ IF resp = "http401" THEN Stop(TokenExit)
                     ELSE IF resp = "urlError" THEN Stop("crash")
                     ELSE Goto("font_filename")
    /\ UNCHANGED <<variant, run, fn, guard, history, env, fs, cfg, i, assets, todo, nf_tag>>

\* the releases a font repository may have: lists of asset names
AssetNames == {<<"x">> \o DotZip, <<"y">> \o DotTtf}

RECURSIVE ListsOver(_, _)
ListsOver(S, n) ==
    IF n = 0 THEN {<<>>}
    ELSE LET shorter == ListsOver(S, n - 1)
         IN  shorter \cup {Append(l, x) : l \in {m \in shorter : Len(m) = n - 1}, x \in S}

AssetLists == ListsOver(AssetNames, MaxAssets)

\* Font.__init__: self.filename = metadata.filename or self.get_filename(...):
\* the configured name, or the request of get_filename
FontFilename ==
    /\ Running /\ pc = "font_filename"
    /\ LET metadata == fonts[i]
       IN  IF Truthy(metadata.filename)
           THEN /\ font' = [font EXCEPT !.filename = metadata.filename]
                /\ assets' = assets
                /\ log' = log
                /\ Goto("font_url")
           ELSE \E resp \in {"assets", "http401", "httpOther", "urlError"} :
                  /\ log' = log \o <<Api("get_filename", i)>>
                                \o (IF resp = "http401" THEN <<Report("token")>> ELSE <<>>)
                  /\ IF resp = "assets"
                     THEN /\ assets' \in AssetLists
                          /\ font' = font
                          /\ Goto("get_filename_scan")
                     ELSE /\ assets' = assets
                          /\ font' = [font EXCEPT !.filename =
                                        IF resp = "httpOther" THEN NoneStr ELSE Empty]
                          /\ IF resp = "http401" THEN Stop(TokenExit)
                             ELSE IF resp = "urlError" THEN Stop("crash")
                             ELSE Goto("font_url")
    /\ UNCHANGED <<variant, run, fn, guard, history, env, fs, cfg, i, todo, nf_tag>>

\* get_filename on the response: the name it returns
GetFilenameScan ==
    /\ Running /\ pc = "get_filename_scan"
    /\ font' = [font EXCEPT !.filename = ScanAssets(assets, fonts[i].filename_start_with)]
    /\ Goto("font_url")
    /\ UNCHANGED <<variant, run, fn, guard, history, env, fs, cfg, i, assets, todo, nf_tag,
                   log>>

\* Font.__init__: self.download_url; the Font object is made
FontUrl ==
    /\ Running /\ pc = "font_url"
    /\ LET url == DownloadUrl(fonts[i], font.tag, font.filename)
       IN  /\ font' = [font EXCEPT !.download_url = url]
           /\ log' = Append(log, Ev("font", "init", i, <<>>, url, NoPath))
    /\ assets' = <<>>
    /\ Goto("download")
    /\ UNCHANGED <<variant, run, fn, guard, history, env, fs, cfg, i, todo, nf_tag>>

\* where urlretrieve writes: the temporary directory; in main.py the working
\* tree when the name is a .ttf
DownloadDir(filename) ==
    IF variant = "main" /\ is_ttf(filename) THEN UnpatchedDir ELSE TmpDir

DirExists(dir) ==
    IF dir = UnpatchedDir THEN "unpatched-fonts" \in dest.entries ELSE scratch.exists

\* the loop goes to the next font source, or the function returns
NextFont ==
    /\ i' = i + 1
    /\ IF i < Len(fonts) THEN Goto("font_tag") ELSE Return("download_and_extract_fonts")

\* urllib.request.urlretrieve(font.download_url, dest): the file is written, or the
\* request or the write raises
Download ==
    /\ Running /\ pc = "download"
    /\ LET dir == DownloadDir(font.filename)
           file == File(dir, font.filename, font.download_url, <<>>)
       IN  /\ log' = Append(log, Ev("download", "urlretrieve", i, <<>>,
                                    font.download_url, PathOf(file)))
           /\ \E ok \in BOOLEAN :
                /\ ok => DirExists(dir)
                /\ IF ok
                   THEN /\ scratch' = IF dir = TmpDir
                                      THEN [scratch EXCEPT !.files = WriteFile(@, file)]
                                      ELSE scratch
                        /\ unpatched' = IF dir = UnpatchedDir
                                        THEN WriteFile(unpatched, file) ELSE unpatched
                        /\ IF IsFontFile(font.filename)
                           THEN NextFont
                           ELSE Goto("unzip") /\ i' = i
                   ELSE /\ UNCHANGED <<scratch, unpatched, i>>
                        /\ Stop("crash")
    /\ UNCHANGED <<variant, run, fn, guard, history, env, dest, patched, cfg, font,
                   assets, todo, nf_tag>>

\* the files of a release archive
ArchiveFiles ==
    {<<"f">> \o DotTtf, <<"g">> \o DotTtf, <<"h">> \o DotTtf}

ExtractDir(repo) == Append(TmpDir, repo)

\* unzip -q <download> -d <TEMP>/<repo>
Unzip ==
    /\ Running /\ pc = "unzip"
    /\ \E present \in BOOLEAN :
         Popen("unzip", present, TRUE,
               <<"unzip", "-q", "dest_download", "-d", "dest_extract">>, i,
               Path(TmpDir, font.filename), Path(ExtractDir(font.repo), <<>>),
               "unzip_wait")
    /\ UNCHANGED <<variant, run, fn, guard, history, fs, cfg, loc>>

\* what a URL serves is an archive when its last segment ends in .zip
EndsWith(s, suffix) ==
    /\ Len(s) >= Len(suffix)
    /\ SubSeq(s, Len(s) - Len(suffix) + 1, Len(s)) = suffix

IsArchive(url) == EndsWith(url.name, DotZip)

\* an unzip that succeeds leaves the archive's files under <TEMP>/<repo>
Extracted(files, archive, repo) ==
    {g \in files : ~(g.dir = ExtractDir(repo) /\ g.name \in ArchiveFiles)}
        \cup {File(ExtractDir(repo), n, archive, <<>>) : n \in ArchiveFiles}

UnzipWait ==
    /\ Running /\ pc = "unzip_wait"
    /\ \E ok \in BOOLEAN :
         /\ ok => IsArchive(font.download_url)
         /\ Communicate("unzip", ok)
         /\ scratch' = IF ok
                       THEN [scratch EXCEPT !.files =
                               Extracted(@, Path(TmpDir, font.filename), font.repo)]
                       ELSE scratch
    /\ NextFont
    /\ UNCHANGED <<variant, run, fn, guard, history, tools, dest, unpatched, patched, cfg,
                   font, assets, todo, nf_tag>>

----------------------------------------------------------------------------
(* The feature freezer, the copy step, the scratch removal and the patcher *)

\* a TtfOtf entry (lib.py) or an element of ttf_files (main.py)
Staged(path, enable, sets) ==
    [path |-> path, enable_stylistic_sets |-> enable, stylistic_sets |-> sets]

AllFiles == scratch.files \cup unpatched \cup patched

Exists(path) == \E f \in AllFiles : PathOf(f) = path
FileAt(path) == CHOOSE f \in AllFiles : PathOf(f) = path

\* a pattern's last segment is a file name, or * followed by a suffix
Matches(pattern, f) ==
    /\ f.dir = pattern.dir
    /\ IF pattern.name # Empty /\ Head(pattern.name) = "*"
       THEN EndsWith(f.name, Tail(pattern.name))
       ELSE f.name = pattern.name

\* glob.glob(pattern): the paths that match, in no particular order
Glob(pattern) == {PathOf(f) : f \in {g \in AllFiles : Matches(pattern, g)}}

\* every file of the directory the entry's path is in
ResolveDirectory(file) == {PathOf(f) : f \in {g \in AllFiles : g.dir = file.path.dir}}

\* the paths an entry stands for: what glob finds (lib.py), the path as written (main.py)
Resolve(file) == IF variant = "lib" THEN Glob(file.path) ELSE {file.path}

\* the loop over the staged files goes on, or the function returns
NextStaged(loop, fnname) ==
    /\ i' = i + 1
    /\ IF i < Len(ttf_files) THEN Goto(loop) ELSE Return(fnname)

\* a loop over the staged files begins
StartLoop(loop, fnname) ==
    /\ i' = 1
    /\ IF ttf_files = <<>> THEN Return(fnname) ELSE Goto(loop)

ApplyStart ==
    /\ Running /\ pc = "apply_start"
    /\ StartLoop("apply", "apply_stylistic_sets")
    /\ UNCHANGED <<variant, run, fn, guard, history, env, fs, cfg, font, assets, todo,
                   nf_tag, log>>

\* the command line with one fixed feature string
FreezeCmdFixed(sets) == <<"pyftfeatfreeze", "-f", "ss01", "path", "path">>

FreezeCmd(sets) == <<"pyftfeatfreeze", "-f", sets, "path", "path">>

\* apply_stylistic_sets, one iteration up to the start of pyftfeatfreeze
ApplyStylisticSets ==
    /\ Running /\ pc = "apply"
    /\ LET file == ttf_files[i]
       IN  IF ~file.enable_stylistic_sets
           THEN /\ NextStaged("apply", "apply_stylistic_sets")
                /\ UNCHANGED <<tools, child, returncode, log>>
           ELSE IF Resolve(file) = {}
           THEN /\ log' = Append(log, Warn("apply", i))
                /\ NextStaged("apply", "apply_stylistic_sets")
                /\ UNCHANGED <<tools, child, returncode>>
           ELSE \E path \in Resolve(file), present \in BOOLEAN :
                  /\ Popen("pyftfeatfreeze", present, TRUE,
                           FreezeCmd(file.stylistic_sets), i, path, path, "apply_wait")
                  /\ i' = i
    /\ UNCHANGED <<variant, run, fn, guard, history, fs, cfg, font, assets,
                   todo, nf_tag>>

\* the child process that is running was started by the last event of the log
Started == log[Len(log)]

\* pyftfeatfreeze has rewritten the file with the features frozen
Freeze(files, path, sets) ==
    {IF PathOf(f) = path THEN [f EXCEPT !.feat = Append(@, sets)] ELSE f : f \in files}

\* pyftfeatfreeze succeeds only on a file that is there
ApplyWait ==
    /\ Running /\ pc = "apply_wait"
    /\ \E ok \in BOOLEAN :
         /\ ok => Exists(Started.dst)
         /\ Communicate("pyftfeatfreeze", ok)
         /\ LET sets == ttf_files[i].stylistic_sets
                done(files) == IF ok THEN Freeze(files, Started.dst, sets) ELSE files
            IN  /\ scratch' = [scratch EXCEPT !.files = done(@)]
                /\ unpatched' = done(unpatched)
                /\ patched' = done(patched)
    /\ NextStaged("apply", "apply_stylistic_sets")
    /\ UNCHANGED <<variant, run, fn, guard, history, tools, dest, cfg, font, assets, todo,
                   nf_tag>>

CopyStart ==
    /\ Running /\ pc = "copy_start"
    /\ StartLoop("copy", "copy_and_paste_fonts")
    /\ UNCHANGED <<variant, run, fn, guard, history, env, fs, cfg, font, assets, todo,
                   nf_tag, log>>

\* copy_and_paste_fonts, one iteration: shutil.copy(path, <dest>/src/unpatched-fonts).
\* lib.py skips an entry that matches nothing; in main.py shutil.copy raises
\* FileNotFoundError on a path that is not there.
CopyAndPasteFonts ==
    /\ Running /\ pc = "copy"
    /\ LET file == ttf_files[i]
       IN  IF variant = "lib" /\ Resolve(file) = {}
           THEN /\ log' = Append(log, Warn("copy", i))
                /\ unpatched' = unpatched
                /\ NextStaged("copy", "copy_and_paste_fonts")
           ELSE \E path \in Resolve(file) :
                  IF Exists(path) /\ "unpatched-fonts" \in dest.entries
                  THEN LET to == File(UnpatchedDir, path.name, path, FileAt(path).feat)
                       IN  /\ log' = Append(log, Ev("copy", "shutil.copy", i, <<>>, path,
                                                    PathOf(to)))
                           /\ unpatched' = WriteFile(unpatched, to)
                           /\ NextStaged("copy", "copy_and_paste_fonts")
                  ELSE /\ UNCHANGED <<log, unpatched, i>>
                       /\ Stop("crash")
    /\ UNCHANGED <<variant, run, fn, guard, history, env, dest, scratch, patched, cfg,
                   font, assets, todo, nf_tag>>

\* main.py line 293: shutil.rmtree(TEMP_DIR)
RmtreeScratch ==
    /\ Running /\ pc = "rmtree_scratch"
    /\ IF scratch.exists
       THEN /\ scratch' = [exists |-> FALSE, files |-> {}]
            /\ log' = Append(log, Rmtree("tmp/fonts"))
            /\ Return("rmtree")
       ELSE /\ UNCHANGED <<scratch, log>>
            /\ Stop("crash")
    /\ UNCHANGED <<variant, run, fn, guard, history, env, dest, unpatched, patched, cfg,
                   loc>>

\* path_fonts: fonts_to_path = os.listdir(<dest>/src/unpatched-fonts)
PathStart ==
    /\ Running /\ pc = "path_start"
    /\ IF "unpatched-fonts" \in dest.entries
       THEN /\ todo' = {f.name : f \in unpatched}
            /\ IF unpatched = {} THEN Return("path_fonts") ELSE Goto("patch")
       ELSE /\ todo' = todo
            /\ Stop("crash")
    /\ UNCHANGED <<variant, run, fn, guard, history, env, fs, cfg, i, font, assets,
                   nf_tag, log>>

\* the patcher's command line without --mono
PatchCmdNoMono ==
    <<"fontforge", "-script", "font-patcher", "path_font_to_patch", "--complete",
      "--outputdir", "patched-fonts">>

\* the command line of the patcher, where platform.system() is not "Windows"
PatchCmd ==
    <<"fontforge", "-script", "font-patcher", "path_font_to_patch", "--complete", "--mono",
      "--outputdir", "patched-fonts">>

\* path_fonts, one iteration up to the start of fontforge: the next name of the
\* listing, which os.listdir gives in no particular order; font is the name
PathFonts ==
    /\ Running /\ pc = "patch"
    /\ \E name \in todo, present \in BOOLEAN :
         /\ font' = [NoFont EXCEPT !.filename = name]
         /\ Popen("fontforge", present, dest.exists, PatchCmd, 0,
                  NoPath, Path(PatchedDir, Empty), "patch_wait")
    /\ UNCHANGED <<variant, run, fn, guard, history, fs, cfg, i, assets, todo,
                   nf_tag>>

\* a patcher that succeeds writes the patched font into patched-fonts
PathFontsWait ==
    /\ Running /\ pc = "patch_wait"
    /\ \E ok \in BOOLEAN :
         /\ ok => Exists(Path(UnpatchedDir, font.filename))
         /\ Communicate("fontforge", ok)
         /\ patched' = IF ok
                       THEN LET from == Path(UnpatchedDir, font.filename)
                            IN  WriteFile(patched, File(PatchedDir, font.filename, from,
                                                        FileAt(from).feat))
                       ELSE patched
    /\ todo' = todo \ {font.filename}
    /\ IF todo = {font.filename} THEN Return("path_fonts") ELSE Goto("patch")
    /\ UNCHANGED <<variant, run, fn, guard, history, tools, dest, scratch, unpatched, cfg,
                   i, font, assets, nf_tag>>

----------------------------------------------------------------------------
(* Runs *)

DestStates ==
    {[exists |-> FALSE, entries |-> {}], [exists |-> TRUE, entries |-> {}],
     [exists |-> TRUE, entries |-> {"other"}]}

InitCommon ==
    /\ pc = "stopped" /\ outcome = "none" /\ run = 0 /\ fn = "none" /\ guard = "none"
    /\ history = <<>>
    /\ tools = [t \in ToolNames |-> "unknown"]
    /\ child = NoChild
    /\ returncode = "none"
    /\ unpatched = {} /\ patched = {}
    /\ i = 0 /\ font = NoFont /\ assets = <<>> /\ todo = {} /\ nf_tag = ""
    /\ log = <<>>

\* the tag a caller of lib.clone_nerd_fonts_repo passes: a release tag, or what
\* get_latest_version_nf returned to it earlier in the same process
TagArgs(entry) ==
    LET kept == IF outcome = "returned" /\ variant = "lib" THEN nf_tag ELSE ""
    IN  IF variant = "lib" /\ entry = "clone_guard"
        THEN {TagNF} \cup (IF kept = "" THEN {} ELSE {kept})
        ELSE {kept}

\* a run begins: the script is started, or the library's caller calls a function.
\* A process that has exited or crashed is gone, and its variables with it; log is
\* what the run that is under way has done so far.
Begin(entries) ==
    /\ ~Running /\ run < MaxRuns
    /\ \E e \in entries :
         /\ pc' = e
         /\ fn' = IF variant = "lib" THEN e ELSE "script"
         /\ nf_tag' \in TagArgs(e)
    /\ outcome' = "running"
    /\ run' = run + 1
    /\ guard' = "none"
    /\ history' = IF run = 0 THEN history
                  ELSE Append(history, [fn |-> fn, guard |-> guard, outcome |-> outcome])
    /\ log' = <<>>
    /\ UNCHANGED <<variant, env, fs, cfg, i, font, assets, todo>>

(* Runs of the repository preparer on one destination *)

InitClone ==
    /\ InitCommon
    /\ variant \in {"clone", "lib", "main"}
    /\ dest \in DestStates
    /\ scratch = [exists |-> FALSE, files |-> {}]
    /\ fonts = <<>>
    /\ ttf_files = <<>>

\* what a run of each file starts with
CloneEntries ==
    IF variant = "clone" THEN {"main_urlopen"}
    ELSE IF variant = "main" THEN {"main_prepare"}
    ELSE {"check_requirements", "get_latest_version_nf", "clone_guard"}

BeginClone == Begin(CloneEntries)

NextClone ==
    \/ BeginClone
    \/ MainUrlopen
    \/ CheckRequirements
    \/ GetLatestVersionNf
    \/ MainPrepare
    \/ CloneGuard
    \/ GitClone
    \/ GitCloneWait
    \/ GitSparse
    \/ GitSparseWait
    \/ GitCheckout
    \/ GitCheckoutWait
    \/ MkPatched
    \/ MkUnpatched

SpecClone == InitClone /\ [][NextClone]_vars

(* Calls of lib.download_and_extract_fonts *)

RepoNames == <<"r1", "r2", "r3", "r4">>
RepoName(k) == RepoNames[((k - 1) % Len(RepoNames)) + 1]

\* an explicit download_url: a direct link to a .ttf file
TtfLink == Path(<<"dtinth.github.io", "comic-mono-font">>, <<"c">> \o DotTtf)

Source(tag, filename, start_with, url) ==
    [tag |-> tag, filename |-> filename, filename_start_with |-> start_with,
     download_url |-> url]

\* the shapes of a font source
FontSources ==
    { Source("", Empty, Empty, NoPath),                        \* all from the release API
      Source("", Empty, <<"y">>, NoPath),                      \* with a selector
      Source("", <<"c">> \o DotTtf, Empty, TtfLink),           \* main.py lines 162-169
      Source("", Empty, Empty, TtfLink),                       \* the link alone
      Source(TagFont, <<"a">> \o DotZip, Empty, NoPath),       \* a pinned archive
      Source(TagFont, <<"a">> \o DotTtf \o DotZip, Empty, NoPath),
      Source(TagFont, <<"b">> \o DotOtf, Empty, NoPath) }

WithRepo(s, k) ==
    [repo |-> RepoName(k), tag |-> s.tag, filename |-> s.filename,
     filename_start_with |-> s.filename_start_with, download_url |-> s.download_url]

\* the elements of master at the positions in S, in order
RECURSIVE Keep(_, _, _)
Keep(master, S, k) ==
    IF k > Len(master) THEN <<>>
    ELSE (IF k \in S THEN <<master[k]>> ELSE <<>>) \o Keep(master, S, k + 1)

\* master with entries left out, at most n kept
Sublists(master, n) ==
    {Keep(master, S, 1) : S \in {T \in SUBSET (1..Len(master)) : Cardinality(T) <= n}}

FontLists(S) ==
    {[k \in 1..Len(l) |-> WithRepo(l[k], k)] : l \in ListsOver(S, MaxFonts)}

\* the working tree as the preparer leaves it
PreparedDest == [exists |-> TRUE, entries |-> {"repo", "patched-fonts", "unpatched-fonts"}]

InitFetch ==
    /\ InitCommon
    /\ variant = "lib"
    /\ dest = PreparedDest
    /\ scratch \in {[exists |-> FALSE, files |-> {}],
                    [exists |-> TRUE, files |-> {File(TmpDir, <<"o">> \o DotZip, NoPath, <<>>)}]}
    /\ ttf_files = <<>>
    /\ fonts \in FontLists(FontSources)

\* one call, in a fresh process
BeginFetch == run = 0 /\ Begin({"download_start"})

NextFetch ==
    \/ BeginFetch
    \/ DownloadStart
    \/ FontTag
    \/ FontFilename
    \/ GetFilenameScan
    \/ FontUrl
    \/ Download
    \/ Unzip
    \/ UnzipWait

SpecFetch == InitFetch /\ [][NextFetch]_vars

(* Calls of lib.apply_stylistic_sets, lib.copy_and_paste_fonts and lib.path_fonts
   on what download_and_extract_fonts has left in the temporary directory *)

StagedLists(S) == ListsOver(S, MaxStaged)

FTtf == <<"f">> \o DotTtf
GTtf == <<"g">> \o DotTtf

\* entries naming a file of the first source's archive, a pattern over them, and
\* a path that is not there
LibStaged ==
    { Staged(Path(ExtractDir("r1"), FTtf), TRUE, "ss01"),
      Staged(Path(ExtractDir("r1"), GTtf), FALSE, ""),
      Staged(Path(ExtractDir("r1"), <<"*">> \o DotTtf), TRUE, "ss19"),
      Staged(Path(ExtractDir("r1"), <<"m">> \o DotTtf), TRUE, "ss01") }

ArchiveUrl == ReleaseUrl("r1", TagFont, <<"x">> \o DotZip)

\* the temporary directory after one archive was downloaded and extracted
FetchedScratch ==
    [exists |-> TRUE,
     files |-> Extracted({File(TmpDir, <<"x">> \o DotZip, ArchiveUrl, <<>>)},
                         Path(TmpDir, <<"x">> \o DotZip), "r1")]

InitStage ==
    /\ InitCommon
    /\ variant = "lib"
    /\ dest = PreparedDest
    /\ scratch = FetchedScratch
    /\ fonts = <<>>
    /\ ttf_files \in StagedLists(LibStaged)

\* the three functions the library's caller may call on the staged files
StageEntries == {"apply_start", "copy_start", "path_start"}

BeginStage == Begin(StageEntries)

NextStage ==
    \/ BeginStage
    \/ ApplyStart
    \/ ApplyStylisticSets
    \/ ApplyWait
    \/ CopyStart
    \/ CopyAndPasteFonts
    \/ PathStart
    \/ PathFonts
    \/ PathFontsWait

SpecStage == InitStage /\ [][NextStage]_vars

(* A run of main.py *)

\* the shapes of main.py's font sources, and a source with the link alone
FiraCode == Source("", Empty, Empty, NoPath)
ComicMono == Source("", <<"c">> \o DotTtf, Empty, TtfLink)
LinkAlone == Source("", Empty, Empty, TtfLink)

\* the configured tuple, and the tuples with entries left out
MainFonts == <<WithRepo(FiraCode, 1), WithRepo(ComicMono, 2), WithRepo(LinkAlone, 3)>>
MainFontLists == Sublists(MainFonts, MaxFonts)

MainStaged ==
    << Staged(Path(ExtractDir("r1"), FTtf), TRUE, "ss01"),
       Staged(Path(ExtractDir("r1"), GTtf), FALSE, ""),
       Staged(Path(ExtractDir("r1"), <<"h">> \o DotTtf), TRUE, "ss19") >>
MainStagedLists == Sublists(MainStaged, MaxStaged)

\* main.py lines 137-170: fonts = (...)
FontsAssign ==
    /\ Running /\ pc = "fonts_assign"
    /\ fonts' \in MainFontLists
    /\ Goto("download_start")
    /\ UNCHANGED <<variant, run, fn, guard, history, env, fs, ttf_files, loc, log>>

\* main.py lines 220-256: ttf_files = (...)
TtfFilesAssign ==
    /\ Running /\ pc = "ttf_files_assign"
    /\ ttf_files' \in MainStagedLists
    /\ Goto("apply_start")
    /\ UNCHANGED <<variant, run, fn, guard, history, env, fs, fonts, loc, log>>

\* a machine the script has not run on, or one on which an earlier run was interrupted
Init ==
    /\ InitCommon
    /\ variant = "main"
    /\ \E earlier \in BOOLEAN :
         /\ dest = IF earlier THEN PreparedDest ELSE [exists |-> FALSE, entries |-> {}]
         /\ scratch = IF earlier THEN FetchedScratch ELSE [exists |-> FALSE, files |-> {}]
    /\ fonts = <<>>
    /\ ttf_files = <<>>

\* the script is run once
BeginMain == run = 0 /\ Begin({"main_prepare"})

Next ==
    \/ BeginMain
    \/ MainPrepare
    \/ GitClone
    \/ GitCloneWait
    \/ GitSparse
    \/ GitSparseWait
    \/ MkPatched
    \/ MkUnpatched
    \/ FontsAssign
    \/ DownloadStart
    \/ FontTag
    \/ FontFilename
    \/ GetFilenameScan
    \/ FontUrl
    \/ Download
    \/ Unzip
    \/ UnzipWait
    \/ TtfFilesAssign
    \/ ApplyStart
    \/ ApplyStylisticSets
    \/ ApplyWait
    \/ CopyStart
    \/ CopyAndPasteFonts
    \/ RmtreeScratch
    \/ PathStart
    \/ PathFonts
    \/ PathFontsWait

Spec == Init /\ [][Next]_vars

----------------------------------------------------------------------------
(* Reading the log *)

\* the events of the run under way
ThisRun == log

\* network requests, child processes and filesystem writes
IsWork(e) == e.k \in {"api", "download", "spawn", "mkdir", "rmtree", "copy"}

RefusePolicy == variant \in {"lib", "clone"}

----------------------------------------------------------------------------
(* C6 *)

\* C6: clone_nerd_fonts_repo on a destination that exists and is not empty reports
\* an error and stops the run with a failure outcome, before any git process is
\* spawned or any directory created, and leaves the destination as it was
\* (stated for the files whose policy is to refuse: lib.py, clone_nerd_fonts_repo.py)
C6_RefusesWithFailure ==
    [][(RefusePolicy /\ Running /\ pc = "clone_guard" /\ dest.exists /\ dest.entries # {})
         => /\ outcome' = "exit1"
            /\ log' = Append(log, Report("destination"))
            /\ dest' = dest
            /\ \A k \in 1..Len(ThisRun) : ThisRun[k].k \notin {"spawn", "mkdir"}]_vars

----------------------------------------------------------------------------
(* C7 *)

\* an earlier run in which the preparer ran at all
PreparerRan(h) == h.guard # "none"

\* an earlier run of the preparer that ended in an orderly way: it was refused,
\* or it ran to its end
PreparerEnded(h) ==
    \/ h.guard = "refused"
    \/ h.guard = "passed" /\ h.outcome = "returned"

----------------------------------------------------------------------------
(* C10 *)

\* C10: a missing program is found by check_requirements before any other work
\* of the run (no request, no write, no process precedes the report), and the
\* run then ends with a failure status, the program reported by name
C10_CheckedFirstAndFatal ==
    [][\A t \in ToolNames :
         (tools[t] # "absent" /\ tools'[t] = "absent")
            => /\ outcome' = "exit1"
               /\ log' = Append(log, Report(t))
               /\ \A k \in 1..Len(ThisRun) : ~IsWork(ThisRun[k])]_vars

----------------------------------------------------------------------------
(* C1 *)

\* C1: a font source with a non-empty download_url causes no request to the
\* release API (neither get_tag nor get_filename), and its download is made
\* from that URL as written, whatever its tag and filename fields are.
C1_UrlVerbatimNoApi ==
    \A k \in 1..Len(log) :
        LET e == log[k]
        IN  (e.k \in {"api", "download"} /\ fonts[e.n].download_url # NoPath)
                => /\ e.k # "api"
                   /\ e.src = fonts[e.n].download_url

----------------------------------------------------------------------------
(* C2 *)

\* sub is a substring of s
Contains(s, sub) ==
    \E p \in 0..Len(s) : p + Len(sub) <= Len(s) /\ SubSeq(s, p + 1, p + Len(sub)) = sub

\* what get_filename is to return on the asset list A for the selector sel
ExpectedFilename(A, sel) ==
    LET matching == {k \in 1..Len(A) : Contains(A[k], sel)}
    IN  IF Len(A) = 1 THEN A[1]
        ELSE IF matching = {} THEN NoneStr
        ELSE A[CHOOSE k \in matching : \A m \in matching : k <= m]

----------------------------------------------------------------------------
(* C3 *)

HasFontExtension(filename) == EndsWith(filename, DotTtf) \/ EndsWith(filename, DotOtf)

\* C3: the classifier goes by the extension of the file name, so after a
\* download the unzip process is started exactly when the name does not end
\* in .ttf or .otf.
C3_ClassifiesByExtension ==
    [][(pc = "download" /\ outcome' # "crash")
         => ((pc' = "unzip") <=> ~HasFontExtension(font.filename))]_vars

----------------------------------------------------------------------------
(* C4 *)

\* the child processes of one program that the run has started
Spawns(tool) == {k \in 1..Len(log) : log[k].k = "spawn" /\ log[k].what = tool}

\* the patcher has written a patched font for every file in unpatched-fonts
PatcherSucceeded == \A f \in unpatched : \E g \in patched : g.name = f.name

DirectTtfLink(url) == url # NoPath /\ EndsWith(url.name, DotTtf)

\* C4: with one font source whose download_url is a direct .ttf link and no
\* staged file with stylistic sets enabled, a complete run in which the patcher
\* succeeds ends with exactly one file in patched-fonts, the patcher started
\* exactly once, and no scratch directory.
C4_OnePatchedFile ==
    (/\ variant = "main" /\ outcome = "returned"
     /\ Len(fonts) = 1 /\ DirectTtfLink(fonts[1].download_url)
     /\ \A k \in 1..Len(ttf_files) : ~ttf_files[k].enable_stylistic_sets
     /\ PatcherSucceeded)
        => /\ Cardinality(patched) = 1
           /\ Cardinality(Spawns("fontforge")) = 1
           /\ ~scratch.exists

----------------------------------------------------------------------------
(* C5 *)

\* the stage a position of main.py belongs to: 1 the repository preparer, 2 the
\* resolver and fetcher, 3 the feature freezer, 4 the copy, 5 the scratch
\* removal, 6 the patcher; 0 when no run is under way
StageOf(p) ==
    CASE p \in {"main_prepare", "git_clone", "git_clone_wait", "git_sparse",
                "git_sparse_wait", "mk_patched", "mk_unpatched"} -> 1
      [] p \in {"fonts_assign", "download_start", "font_tag", "font_filename",
                "get_filename_scan", "font_url", "download", "unzip", "unzip_wait"} -> 2
      [] p \in {"ttf_files_assign", "apply_start", "apply", "apply_wait"} -> 3
      [] p \in {"copy_start", "copy"} -> 4
      [] p = "rmtree_scratch" -> 5
      [] p \in {"path_start", "patch", "patch_wait"} -> 6
      [] OTHER -> 0

\* the stage whose work an event is; 0 for an event that says nothing of the stage
EventStage(e) ==
    CASE e.k = "spawn" /\ e.what = "git" -> 1
      [] e.k \in {"api", "font", "download"} -> 2
      [] e.k = "spawn" /\ e.what = "unzip" -> 2
      [] e.k = "spawn" /\ e.what = "pyftfeatfreeze" -> 3
      [] e.k = "copy" -> 4
      [] e.k = "spawn" /\ e.what = "fontforge" -> 6
      [] OTHER -> 0

\* event k of the sequence l is of the kind knd and about source n
IsOf(l, k, knd, n) == l[k].k = knd /\ l[k].n = n

\* C5 as stated: resolving is a stage of its own, complete for all font
\* sources before the first download
C5_Original ==
    \A k \in 1..Len(log) :
        log[k].k = "download"
            => \A n \in 1..Len(fonts) : \E j \in 1..(k - 1) : IsOf(log, j, "font", n)

\* the events of l are in the order of their stages
InStageOrder(l) ==
    \A j, k \in 1..Len(l) :
        (j < k /\ EventStage(l[j]) # 0 /\ EventStage(l[k]) # 0)
            => EventStage(l[j]) <= EventStage(l[k])

\* each source is resolved before it is downloaded, and the sources are taken in order
SourceBySource(l) ==
    \A k \in 1..Len(l) :
        l[k].k = "download"
            => /\ \E j \in 1..(k - 1) : IsOf(l, j, "font", l[k].n)
               /\ \A n \in 1..(l[k].n - 1) : \E j \in 1..(k - 1) : IsOf(l, j, "download", n)
               /\ \A j \in 1..(k - 1) : ~IsOf(l, j, "font", l[k].n + 1)

\* C5: a run of main.py goes through preparer, fetcher, freezer, copy, scratch
\* removal and patcher in that order, one stage at a time, none skipped and none
\* entered again; it ends normally only out of the patcher; the work of a stage
\* never precedes work of an earlier stage; and inside the fetcher each source is
\* resolved and then downloaded before the next source is resolved.
C5_StagesInOrder ==
    [][/\ (~Running /\ Running') => StageOf(pc') = 1
       /\ (Running /\ Running') => StageOf(pc') \in {StageOf(pc), StageOf(pc) + 1}
       /\ (Running /\ outcome' = "returned") => StageOf(pc) = 6
       /\ InStageOrder(log')
       /\ SourceBySource(log')]_vars

\* a run over two font sources has ended normally after freezing, copying and patching
C5_Witness ==
    /\ variant = "main" /\ outcome = "returned"
    /\ Len(fonts) = 2
    /\ Spawns("pyftfeatfreeze") # {}
    /\ \E k \in 1..Len(log) : log[k].k = "copy"
    /\ Cardinality(patched) = 2

----------------------------------------------------------------------------
(* C8 *)

\* the pyftfeatfreeze processes started for entry n of the staged files
FreezesOf(l, n) ==
    {k \in 1..Len(l) : l[k].k = "spawn" /\ l[k].what = "pyftfeatfreeze" /\ l[k].n = n}

\* C8: the iteration of apply_stylistic_sets over an entry with
\* enable_stylistic_sets false starts no process and changes no file; the
\* iteration over an enabled entry whose path resolves starts pyftfeatfreeze
\* with that entry's stylistic_sets and one resolved path as both input and
\* output; no entry has more than one such process, and when the function has
\* returned every enabled entry that resolves has had exactly one.
C8_FreezerFrame ==
    [][/\ (Running /\ pc = "apply" /\ ~ttf_files[i].enable_stylistic_sets)
            => /\ log' = log /\ child' = NoChild
               /\ scratch' = scratch /\ unpatched' = unpatched /\ patched' = patched
       /\ (/\ Running /\ pc = "apply" /\ ttf_files[i].enable_stylistic_sets
           /\ Resolve(ttf_files[i]) # {} /\ outcome' # "crash")
            => /\ Len(log') = Len(log) + 1
               /\ LET e == log'[Len(log')]
                  IN  /\ e.k = "spawn" /\ e.arg[1] = "pyftfeatfreeze" /\ e.n = i
                      /\ e.arg[3] = ttf_files[i].stylistic_sets
                      /\ e.src = e.dst /\ e.src \in Resolve(ttf_files[i])
       /\ \A n \in 1..Len(ttf_files) :
            /\ Cardinality(FreezesOf(log', n)) <= 1
            /\ FreezesOf(log', n) # {} => ttf_files[n].enable_stylistic_sets
            /\ (/\ pc = "apply_wait" /\ outcome' = "returned"
                /\ ttf_files[n].enable_stylistic_sets /\ Resolve(ttf_files[n]) # {})
                 => Cardinality(FreezesOf(log', n)) = 1]_vars

\* apply_stylistic_sets has returned after freezing an enabled entry's file and
\* passing over a disabled entry
C8_Witness ==
    /\ variant = "lib" /\ fn = "apply_start" /\ outcome = "returned"
    /\ Len(ttf_files) = 2
    /\ ~ttf_files[1].enable_stylistic_sets /\ ttf_files[2].enable_stylistic_sets
    /\ Cardinality(FreezesOf(log, 2)) = 1
    /\ \E f \in scratch.files : f.feat = <<ttf_files[2].stylistic_sets>>
    /\ \A f \in scratch.files : PathOf(f) = ttf_files[1].path => f.feat = <<>>

----------------------------------------------------------------------------
(* C9 *)

\* a path inside a directory an archive was extracted into
IsExtracted(path) == Len(path.dir) = 3 /\ SubSeq(path.dir, 1, 2) = TmpDir

\* some staged-file entry names the path
Referenced(path) ==
    \E k \in 1..Len(ttf_files) :
        IF variant = "lib" THEN Matches(ttf_files[k].path, path)
        ELSE ttf_files[k].path = path

\* C9: an extracted file is copied into src/unpatched-fonts only if a staged-file
\* entry names it; when no source is downloaded straight into the working tree,
\* src/unpatched-fonts holds only files the entries name; and once the scratch
\* directory has been removed, no extracted file is left.
C9_OnlyStagedCopied ==
    /\ \A k \in 1..Len(log) : log[k].k = "copy" => Referenced(log[k].src)
    /\ \A f \in unpatched : IsExtracted(f.origin) => Referenced(f.origin)
    /\ (\A k \in 1..Len(log) : log[k].k = "download" => log[k].dst.dir = TmpDir)
            => \A f \in unpatched : Referenced(f.origin)
    /\ (StageOf(pc) = 6 \/ outcome = "returned")
            => ~scratch.exists /\ scratch.files = {}

\* a run has ended after extracting an archive of three fonts and copying the one
\* that is staged
C9_Witness ==
    /\ variant = "main" /\ outcome = "returned"
    /\ Len(fonts) = 1 /\ Spawns("unzip") # {}
    /\ Len(ttf_files) = 1
    /\ {f.name : f \in unpatched} = {FTtf}
    /\ \E k \in 1..Len(log) : log[k].k = "copy"
    /\ Cardinality(ArchiveFiles) = 3

----------------------------------------------------------------------------
(* C11 *)

\* C11: a release that cannot be resolved is fatal: the step in which get_tag
\* comes back without a tag, or get_filename without an asset name, stops the
\* run, so that no download URL is built and nothing is downloaded for the source.
C11_UnresolvableIsFatal ==
    [][(\/ Running /\ pc = "font_tag" /\ font'.tag = NoneTag
        \/ Running /\ pc \in {"font_filename", "get_filename_scan"}
                   /\ font'.filename = NoneStr)
         => ~Running']_vars

----------------------------------------------------------------------------
(* C12 *)

\* the entry's path names no file
Unresolved(file) ==
    IF variant = "lib" THEN Glob(file.path) = {} ELSE ~Exists(file.path)

\* C12: in apply_stylistic_sets and in copy_and_paste_fonts an entry whose
\* path matches no file is skipped with a warning and nothing else: the run
\* does not stop, the loop goes on to the next entry, and after the last entry
\* the function returns.
C12_MissingPathSkipped ==
    [][(/\ Running /\ pc \in {"apply", "copy"}
        /\ Unresolved(ttf_files[i])
        /\ pc = "apply" => ttf_files[i].enable_stylistic_sets)
         => /\ outcome' \in {"running", "returned"}
            /\ log' = Append(log, Warn(pc, i))
            /\ i' = i + 1
            /\ i < Len(ttf_files) => pc' = pc
            /\ i = Len(ttf_files) => pc' \notin {pc, "apply_wait"}]_vars

----------------------------------------------------------------------------
(* C13 *)

\* where the code goes when the function fnname is done
AfterFunction(fnname) ==
    LET next == IF variant = "main" THEN MainScript(fnname)
                ELSE IF variant = "clone" THEN CloneScript(fnname) ELSE "end"
    IN  IF next = "end" THEN "stopped" ELSE next

\* the statement that follows process.communicate() at each wait
AfterExit ==
    CASE pc = "git_clone_wait" -> "git_sparse"
      [] pc = "git_sparse_wait" -> IF variant = "main" THEN "mk_patched" ELSE "git_checkout"
      [] pc = "git_checkout_wait" -> "mk_patched"
      [] pc = "unzip_wait" -> IF i < Len(fonts) THEN "font_tag"
                              ELSE AfterFunction("download_and_extract_fonts")
      [] pc = "apply_wait" -> IF i < Len(ttf_files) THEN "apply"
                              ELSE AfterFunction("apply_stylistic_sets")
      [] pc = "patch_wait" -> IF todo # {font.filename} THEN "patch"
                              ELSE AfterFunction("path_fonts")
      [] OTHER -> "none"

\* C13: when a child process (git, unzip, pyftfeatfreeze, fontforge) has exited,
\* with status zero or not, the run goes on with the statement after the wait:
\* nothing is reported, the run is not stopped, and the next step is the same
\* for both statuses.
C13_ExitStatusIgnored ==
    [][(child # NoChild /\ child' = NoChild)
         => /\ returncode' \in {0, 1}
            /\ log' = log
            /\ outcome' \in {"running", "returned"}
            /\ pc' = AfterExit]_vars

\* a run has ended normally although the patcher failed on every font
C13_Witness ==
    /\ variant = "main" /\ outcome = "returned"
    /\ returncode = 1
    /\ unpatched # {} /\ patched = {}
    /\ Spawns("fontforge") # {}

----------------------------------------------------------------------------
(* C14 *)

IsGit(e) == e.k = "spawn" /\ e.what = "git"
IsMkdirIn(e) == e.k = "mkdir" /\ e.what \in {"patched-fonts", "unpatched-fonts"}

\* the command lines of the git processes in l from event k on, in order
RECURSIVE Commands(_, _)
Commands(l, k) ==
    IF k > Len(l) THEN <<>>
    ELSE (IF IsGit(l[k]) THEN <<l[k].arg>> ELSE <<>>) \o Commands(l, k + 1)

\* C14: a preparer that has got as far as creating patched-fonts has started
\* git exactly three times before: the blob-filtered sparse clone, the
\* sparse-checkout add of bin, css, src/glyphs, src/svgs, and the checkout of the
\* release tag, in this order; no git process is running or started later; and
\* patched-fonts is created before src/unpatched-fonts.
C14_ThreeGitThenDirs ==
    \A k \in 1..Len(log) :
        IsMkdirIn(log[k])
            => /\ Commands(log, 1) = <<GitCloneCmd, GitSparseCmd, GitCheckoutCmd(nf_tag)>>
               /\ \A j \in 1..Len(log) : IsGit(log[j]) => j < k
               /\ child = NoChild
               /\ log[k].what = "unpatched-fonts"
                    => \E j \in 1..(k - 1) : log[j] = Mkdir("patched-fonts")

----------------------------------------------------------------------------
(* C15 *)

\* the patcher processes started so far in l
PatcherRuns(l) == {k \in 1..Len(l) : l[k].k = "spawn" /\ l[k].what = "fontforge"}

Listing(files) == {f.name : f \in files}

\* path_fonts is in its loop, or has returned
InPatcher(p, o) ==
    \/ p \in {"patch", "patch_wait"}
    \/ o = "returned" /\ (variant = "main" \/ fn = "path_start")

\* C15: path_fonts takes the names that are in src/unpatched-fonts when it
\* starts; every patcher process is started when no other child is running, on a
\* name of that listing not yet done, with the options --complete --mono
\* --outputdir patched-fonts; its exit takes the name off; so the number of
\* patcher processes started is the number of names done or in hand, and when
\* path_fonts has returned it is the number of files in the listing.
C15_OncePerFile ==
    [][/\ (Running /\ pc = "path_start" /\ pc' = "patch") => todo' = Listing(unpatched)
       /\ (pc = "patch" /\ child' # NoChild)
            => /\ child = NoChild
               /\ font'.filename \in todo
               /\ Len(log') = Len(log) + 1
               /\ LET cmd == log'[Len(log')].arg
                  IN  /\ Len(cmd) = 8 /\ cmd[2] = "-script" /\ cmd[3] = "font-patcher"
                      /\ SubSeq(cmd, 5, 8) = <<"--complete", "--mono", "--outputdir",
                                               "patched-fonts">>
       /\ (Running /\ pc = "patch_wait")
            => /\ child' = NoChild
               /\ font.filename \in todo /\ todo' = todo \ {font.filename}
       /\ InPatcher(pc', outcome')
            => /\ todo' \subseteq Listing(unpatched')
               /\ Cardinality(PatcherRuns(log'))
                    = Cardinality(Listing(unpatched')) - Cardinality(todo')
                        + (IF pc' = "patch_wait" THEN 1 ELSE 0)
               /\ outcome' = "returned" => todo' = {}]_vars

\* path_fonts has returned after patching two fonts, one after the other
C15_Witness ==
    /\ variant = "lib" /\ fn = "path_start" /\ outcome = "returned"
    /\ Cardinality(unpatched) = 2
    /\ Cardinality(PatcherRuns(log)) = 2
    /\ Cardinality(patched) = 2
    /\ child = NoChild

====
